---- MODULE Spec2Model ----
(***************************************************************************)
(* Verification model of 2key-ratchet's symmetric ratchet                  *)
(* (src/classes/sym_ratchet.ts: SymmetricRatchet, SendingRatchet,          *)
(* ReceivingRatchet) and of its EC public key wrapper (ECPublicKey).       *)
(*                                                                         *)
(* Every async method is split at its await points: one action per         *)
(* resumption, so that calls on one instance can interleave exactly where  *)
(* the JavaScript event loop lets them.  Buffers are sequences of numbers, *)
(* key handles are records holding the raw bytes they were imported from.  *)
(***************************************************************************)
EXTENDS Integers, Sequences, FiniteSets, TLC

(***************************************************************************)
(* Bounds of the model                                                     *)
(***************************************************************************)
\* calls are only started while they cannot push a counter beyond MaxCounter
MaxCounter == 3
\* number of calls that can be in flight at once on one chain instance
NTasks == 2
\* number of distinct plain-text messages a caller can pass to encrypt
NMsgs == 2
\* number of distinct root keys a chain can be constructed with
NSeeds == 2

\* number of distinct values an affine coordinate of a key handle can take
NCoords == 2
\* number of ECPublicKey identities that are kept for later calls
MaxPool == 2

Min(a, b) == IF a <= b THEN a ELSE b

(***************************************************************************)
(* Constants of sym_ratchet.ts                                             *)
(***************************************************************************)
\* new Uint8Array([1]).buffer
CIPHER_KEY_KDF_INPUT == <<1>>
\* new Uint8Array([2]).buffer
ROOT_KEY_KDF_INPUT == <<2>>
\* the "message keys" context label imported from ./const, as one symbol
INFO_MESSAGE_KEYS == <<77>>
\* keys[2].slice(0, 16)
IV_LENGTH == 16
\* bytes.slice(0, 32) / bytes.slice(32): the width of a P-256 coordinate
COORD_SIZE == 32

(***************************************************************************)
(* Primitive provider (class Secret), consumed at its boundary.            *)
(* HMAC and HKDF are modelled as free (collision-free) functions of their  *)
(* inputs; AES as a symbolic authenticated cipher.                         *)
(***************************************************************************)
NoBytes == <<>>
NoKey == [alg |-> "none", raw |-> NoBytes]

\* Secret.importHMAC(raw): an HMAC key handle over the raw bytes
ImportHMAC(raw) == [alg |-> "HMAC", raw |-> raw]

\* Secret.importAES(raw): an AES key handle over the raw bytes
ImportAES(raw) == [alg |-> "AES", raw |-> raw]

\* Secret.sign(key, data): HMAC of data under key
Sign(key, data) == key.raw \o data

\* Secret.HKDF(IKM, keysCount, salt, info): keysCount derived blocks
HKDF(ikm, keysCount, info) == [n \in 1..keysCount |-> ikm \o info \o <<n>>]

\* ArrayBuffer.prototype.slice(begin, end)
Slice(buf, begin, end) == SubSeq(buf, begin + 1, Min(end, Len(buf)))

\* Secret.encrypt(key, data, iv)
Encrypt(key, data, iv) == [key |-> key.raw, iv |-> iv, data |-> data, flip |-> 0]

\* a cipher-text with one bit flipped in transit
Tamper(ct) == [ct EXCEPT !.flip = 1]

\* whether Secret.decrypt(key, data, iv) accepts the cipher-text
DecryptOk(key, ct, iv) == ct.key = key.raw /\ ct.iv = iv /\ ct.flip = 0

\* Secret.decrypt(key, data, iv), where it succeeds
Decrypt(key, ct, iv) == ct.data

(***************************************************************************)
(* State                                                                   *)
(***************************************************************************)
\* the chain instances: one SendingRatchet, one ReceivingRatchet
Senders == {"snd"}
Receivers == {"rcv"}
Inst == Senders \cup Receivers

\* the call slots of an instance (async calls that can be in flight)
Tasks == 1..NTasks

\* the plain-text buffers a caller passes to encrypt
Msgs == {<<m>> : m \in 1..NMsgs}

\* the root keys a chain can be constructed with
RootKeys == {ImportHMAC(<<100 + s>>) : s \in 1..NSeeds}

VARIABLES
    counter,    \* SymmetricRatchet.counter of each instance
    rootKey,    \* SymmetricRatchet.rootKey of each instance
    keys,       \* ReceivingRatchet.keys of each receiving instance
    task,       \* the calls of each instance: position and local variables
    issued,     \* history: the cipher keys click has returned, per instance
    root0,      \* history: the root key each instance was constructed with
    outbox,     \* the cipher messages encrypt has returned to its callers
    pool,       \* the ECPublicKey identities created so far
    keyCall     \* the last ECPublicKey call: its arguments and outcome

ratchetVars == <<counter, rootKey, keys, task, issued, root0, outbox>>
keyVars == <<pool, keyCall>>
vars == <<counter, rootKey, keys, task, issued, root0, outbox, pool, keyCall>>

\* keys[counter] of an index the array does not have
Undefined == <<-1>>

NoRes == [rootKey |-> NoKey, cipher |-> NoBytes]
NoResult == [hmacKey |-> NoKey, cipherText |-> NoBytes]

\* a call slot with no call in it
IdleTask ==
    [pc |-> "idle", op |-> "none", message |-> NoBytes, counter |-> -1,
     pos |-> -1, rootKey |-> NoKey, cipherKeyBytes |-> NoBytes,
     nextRootKeyBytes |-> NoBytes, res |-> NoRes, cipherKey |-> NoBytes,
     keys |-> <<>>, aesKey |-> NoKey, hmacKey |-> NoKey, iv |-> NoBytes,
     key |-> NoBytes, result |-> NoResult, err |-> "none", attempts |-> 0,
     clicks |-> 0]

\* positions at which a call has settled: it returned or it threw
Settled == {"done", "failed"}
\* positions inside calculateKey / click
InClick == {"sign1", "sign2", "importRoot", "click"}
\* positions inside the HKDF .. encrypt/decrypt pipeline
InCipher == {"hkdf", "importAES", "importHMAC", "crypt"}

Busy(i) == \E t \in Tasks : task[i][t].pc # "idle"
InFlight(i) == {t \in Tasks : task[i][t].pc \in InClick}

\* what a call keeps once it has settled: its arguments and its outcome
Settle(tr, pc, result, err) ==
    [IdleTask EXCEPT !.pc = pc, !.op = tr.op, !.message = tr.message,
                     !.counter = tr.counter, !.pos = tr.pos,
                     !.cipherKey = tr.cipherKey, !.key = tr.key,
                     !.attempts = tr.attempts, !.clicks = tr.clicks,
                     !.result = result, !.err = err]

(***************************************************************************)
(* SymmetricRatchet                                                        *)
(***************************************************************************)
\* constructor(rootKey): counter = 0, this.rootKey = rootKey
Init ==
    /\ counter = [i \in Inst |-> 0]
    /\ rootKey \in [Inst -> RootKeys]
    \* the sender's root key is the first one: the receiver's is the same or
    \* another, and nothing in the chain depends on which bytes a key has
    /\ \A i \in Senders : rootKey[i] = ImportHMAC(<<101>>)
    /\ keys = [i \in Receivers |-> <<>>]
    /\ task = [i \in Inst |-> [t \in Tasks |-> IdleTask]]
    /\ issued = [i \in Inst |-> <<>>]
    /\ root0 = rootKey
    /\ outbox = {}
    /\ pool = {}
    /\ keyCall = [op |-> "none"]

\* a calculateKey that derives the cipher key from the root key it installs
CipherKeyBytesOfNewRoot(rk) ==
    Sign(ImportHMAC(Sign(rk, ROOT_KEY_KDF_INPUT)), CIPHER_KEY_KDF_INPUT)

\* calculateKey, first derivation: Secret.sign(rootKey, CIPHER_KEY_KDF_INPUT)
CipherKeyBytes(rk) == Sign(rk, CIPHER_KEY_KDF_INPUT)

\* calculateKey, second derivation: Secret.sign(rootKey, ROOT_KEY_KDF_INPUT)
NextRootKeyBytes(rk) == Sign(rk, ROOT_KEY_KDF_INPUT)

\* calculateKey, the result object
KDFResult(cipherKeyBytes, nextRootKeyBytes) ==
    [rootKey |-> ImportHMAC(nextRootKeyBytes), cipher |-> cipherKeyBytes]

\* a click that derives from a root key shared by all instances
BeginClickShared(tr, i) == [tr EXCEPT !.pc = "sign1", !.rootKey = rootKey["snd"]]

\* click up to its await: reads this.rootKey, enters calculateKey, which
\* calls the first sign
BeginClick(tr, i) == [tr EXCEPT !.pc = "sign1", !.rootKey = rootKey[i]]

\* the first sign has resolved; calculateKey calls the second sign
Sign1(i, t) ==
    /\ task[i][t].pc = "sign1"
    /\ task' = [task EXCEPT ![i][t].pc = "sign2",
                            ![i][t].cipherKeyBytes = CipherKeyBytes(task[i][t].rootKey)]
    /\ UNCHANGED <<counter, rootKey, keys, issued, root0, outbox, pool, keyCall>>

\* the second sign has resolved; calculateKey calls importHMAC
Sign2(i, t) ==
    /\ task[i][t].pc = "sign2"
    /\ task' = [task EXCEPT ![i][t].pc = "importRoot",
                            ![i][t].nextRootKeyBytes = NextRootKeyBytes(task[i][t].rootKey)]
    /\ UNCHANGED <<counter, rootKey, keys, issued, root0, outbox, pool, keyCall>>

\* importHMAC has resolved; calculateKey returns res and click is resumed later
ImportRoot(i, t) ==
    /\ task[i][t].pc = "importRoot"
    /\ task' = [task EXCEPT ![i][t].pc = "click",
                            ![i][t].res = KDFResult(task[i][t].cipherKeyBytes,
                                                    task[i][t].nextRootKeyBytes)]
    /\ UNCHANGED <<counter, rootKey, keys, issued, root0, outbox, pool, keyCall>>

\* a provider call of calculateKey rejects: the exception leaves calculateKey,
\* click and the calling method, none of which catches it
SignRejected(i, t) ==
    /\ task[i][t].pc \in {"sign1", "sign2", "importRoot"}
    /\ task' = [task EXCEPT ![i][t] = Settle(task[i][t], "failed", NoResult, "ProviderError")]
    /\ UNCHANGED <<counter, rootKey, keys, issued, root0, outbox, pool, keyCall>>

\* a click that stores the new root key in every instance
ClickRootKeyAll(i, res) == [j \in Inst |-> res.rootKey]

\* a click that keeps the old root key
ClickRootKeyKept(i, res) == rootKey

\* click after its await: this.rootKey = res.rootKey
ClickRootKey(i, res) == [rootKey EXCEPT ![i] = res.rootKey]

\* a click that counts an advance twice
ClickCounterTwice(i) == [counter EXCEPT ![i] = counter[i] + 2]

\* a click that replaces the root key without counting the advance
ClickCounterKept(i) == counter

\* click after its await: this.counter++
ClickCounter(i) == [counter EXCEPT ![i] = counter[i] + 1]

\* where the caller of click goes on once click has returned res.cipher
AfterClick(tr) ==
    IF tr.op = "encrypt"
    THEN [tr EXCEPT !.pc = "hkdf", !.cipherKey = tr.res.cipher, !.clicks = tr.clicks + 1]
    ELSE [tr EXCEPT !.pc = "push", !.cipherKey = tr.res.cipher, !.clicks = tr.clicks + 1]

\* click is resumed: it commits the new root key and the counter, and returns
\* the cipher key to encrypt or getKey
Click(i, t) ==
    /\ task[i][t].pc = "click"
    /\ rootKey' = ClickRootKey(i, task[i][t].res)
    /\ counter' = ClickCounter(i)
    /\ issued' = [issued EXCEPT ![i] = Append(issued[i], task[i][t].res.cipher)]
    /\ task' = [task EXCEPT ![i][t] = AfterClick(task[i][t])]
    /\ UNCHANGED <<keys, root0, outbox, pool, keyCall>>

\* the caller has taken the outcome of a settled call; its slot is free again
Return(i, t) ==
    /\ task[i][t].pc \in Settled
    /\ task' = [task EXCEPT ![i][t] = IdleTask]
    /\ UNCHANGED <<counter, rootKey, keys, issued, root0, outbox, pool, keyCall>>

(***************************************************************************)
(* The message-key pipeline shared by encrypt and decrypt                  *)
(***************************************************************************)
\* Secret.HKDF(cipherKey, 3, void 0, INFO_MESSAGE_KEYS) has resolved
Hkdf(i, t) ==
    /\ task[i][t].pc = "hkdf"
    /\ task[i][t].cipherKey # Undefined
    /\ task' = [task EXCEPT ![i][t].pc = "importAES",
                            ![i][t].keys = HKDF(task[i][t].cipherKey, 3, INFO_MESSAGE_KEYS)]
    /\ UNCHANGED <<counter, rootKey, keys, issued, root0, outbox, pool, keyCall>>

\* Secret.importAES(keys[0]) has resolved
ImportAESKey(i, t) ==
    /\ task[i][t].pc = "importAES"
    /\ task' = [task EXCEPT ![i][t].pc = "importHMAC",
                            ![i][t].aesKey = ImportAES(task[i][t].keys[1])]
    /\ UNCHANGED <<counter, rootKey, keys, issued, root0, outbox, pool, keyCall>>

\* const iv = keys[2].slice(0, 16)
MessageIV(hkdfKeys) == Slice(hkdfKeys[3], 0, IV_LENGTH)

\* Secret.importHMAC(keys[1]) has resolved; the iv is cut and the cipher called
ImportHMACKey(i, t) ==
    /\ task[i][t].pc = "importHMAC"
    /\ task' = [task EXCEPT ![i][t].pc = "crypt",
                            ![i][t].hmacKey = ImportHMAC(task[i][t].keys[2]),
                            ![i][t].iv = MessageIV(task[i][t].keys)]
    /\ UNCHANGED <<counter, rootKey, keys, issued, root0, outbox, pool, keyCall>>

\* HKDF, importAES, importHMAC or Secret.encrypt rejects: the call fails
CipherRejected(i, t) ==
    /\ \/ task[i][t].pc \in {"hkdf", "importAES", "importHMAC"}
       \/ task[i][t].pc = "crypt" /\ task[i][t].op = "encrypt"
    /\ task' = [task EXCEPT ![i][t] = Settle(task[i][t], "failed", NoResult,
                     IF task[i][t].cipherKey = Undefined THEN "TypeError" ELSE "ProviderError")]
    /\ UNCHANGED <<counter, rootKey, keys, issued, root0, outbox, pool, keyCall>>

(***************************************************************************)
(* SendingRatchet                                                          *)
(***************************************************************************)
\* encrypt(message) up to its first await: it calls click
encrypt(i, t, message) ==
    /\ i \in Senders
    /\ task[i][t].pc = "idle"
    /\ counter[i] + Cardinality(InFlight(i)) < MaxCounter
    /\ task' = [task EXCEPT ![i][t] =
                   BeginClick([IdleTask EXCEPT !.op = "encrypt", !.message = message,
                                               !.pos = counter[i]], i)]
    /\ UNCHANGED <<counter, rootKey, keys, issued, root0, outbox, pool, keyCall>>

\* the CipherMessage encrypt returns
EncryptResult(tr) ==
    [hmacKey |-> tr.hmacKey, cipherText |-> Encrypt(tr.aesKey, tr.message, tr.iv)]

\* Secret.encrypt has resolved; encrypt returns { hmacKey, cipherText }
EncryptDone(i, t) ==
    /\ task[i][t].pc = "crypt"
    /\ task[i][t].op = "encrypt"
    /\ task' = [task EXCEPT ![i][t] =
                   Settle(task[i][t], "done", EncryptResult(task[i][t]), "none")]
    /\ outbox' = outbox \cup {[counter |-> task[i][t].pos, message |-> task[i][t].message,
                               cipherText |-> EncryptResult(task[i][t]).cipherText]}
    /\ UNCHANGED <<counter, rootKey, keys, issued, root0, pool, keyCall>>

(***************************************************************************)
(* ReceivingRatchet                                                        *)
(***************************************************************************)
\* a lookup that returns the key pushed last instead of the indexed one
KeyAtLast(ks, c) == IF Len(ks) = 0 THEN Undefined ELSE ks[Len(ks)]

\* this.keys[counter]
KeyAt(ks, c) == IF c + 1 \in DOMAIN ks THEN ks[c + 1] ELSE Undefined

\* a loop test that stops one advance early
LoopCondStrict(cnt, c) == cnt < c

\* a loop test that advances one step past the requested counter
LoopCondBeyond(cnt, c) == cnt <= c + 1

\* getKey: while (this.counter <= counter)
LoopCond(cnt, c) == cnt <= c

\* getKey: const key = this.keys[counter]; return key  -  and where the
\* caller goes on: a direct getKey call is over, decrypt calls HKDF
ReturnKey(tr, ks) ==
    IF tr.op = "getKey"
    THEN Settle([tr EXCEPT !.key = KeyAt(ks, tr.counter)], "done", NoResult, "none")
    ELSE [tr EXCEPT !.pc = "hkdf", !.key = KeyAt(ks, tr.counter),
                    !.cipherKey = KeyAt(ks, tr.counter)]

\* a getKey that advances once before it tests the counter
GetKeyLoopDoWhile(tr, i, ks) ==
    IF tr.clicks = 0 \/ LoopCond(counter[i], tr.counter)
    THEN BeginClick(tr, i) ELSE ReturnKey(tr, ks)

\* getKey from its loop test to its next await or to its return
GetKeyLoop(tr, i, ks) ==
    IF LoopCond(counter[i], tr.counter) THEN BeginClick(tr, i) ELSE ReturnKey(tr, ks)

\* getKey(counter), called directly: runs to its first await or to its return
getKey(i, t, c) ==
    /\ i \in Receivers
    /\ task[i][t].pc = "idle"
    /\ task' = [task EXCEPT ![i][t] =
                   GetKeyLoop([IdleTask EXCEPT !.op = "getKey", !.counter = c,
                                               !.pos = counter[i]], i, keys[i])]
    /\ UNCHANGED <<counter, rootKey, keys, issued, root0, outbox, pool, keyCall>>

\* decrypt(message, counter) up to its first await: it calls getKey
decrypt(i, t, message, c) ==
    /\ i \in Receivers
    /\ task[i][t].pc = "idle"
    /\ task' = [task EXCEPT ![i][t] =
                   GetKeyLoop([IdleTask EXCEPT !.op = "decrypt", !.message = message,
                                               !.counter = c, !.pos = counter[i]], i, keys[i])]
    /\ UNCHANGED <<counter, rootKey, keys, issued, root0, outbox, pool, keyCall>>

\* a cache that puts the newest key first
PushKeyFront(ks, cipherKey) == <<cipherKey>> \o ks

\* a cache that holds the newest key only
PushKeyOnly(ks, cipherKey) == <<cipherKey>>

\* this.keys.push(cipherKey)
PushKey(ks, cipherKey) == Append(ks, cipherKey)

\* getKey is resumed after click: this.keys.push(cipherKey), then the loop test
Push(i, t) ==
    /\ task[i][t].pc = "push"
    /\ keys' = [keys EXCEPT ![i] = PushKey(keys[i], task[i][t].cipherKey)]
    /\ task' = [task EXCEPT ![i][t] = GetKeyLoop(task[i][t], i, keys'[i])]
    /\ UNCHANGED <<counter, rootKey, issued, root0, outbox, pool, keyCall>>

\* a decrypt that swallows the provider's error and hands the data back
DecryptOutcomeLenient(tr) ==
    Settle([tr EXCEPT !.attempts = tr.attempts + 1], "done",
           [hmacKey |-> tr.hmacKey, cipherText |-> Decrypt(tr.aesKey, tr.message, tr.iv)],
           "none")

\* how decrypt ends once Secret.decrypt has settled: it returns
\* { hmacKey, cipherText } or fails with the provider's error
DecryptOutcome(tr) ==
    IF DecryptOk(tr.aesKey, tr.message, tr.iv)
    THEN Settle([tr EXCEPT !.attempts = tr.attempts + 1], "done",
                [hmacKey |-> tr.hmacKey,
                 cipherText |-> Decrypt(tr.aesKey, tr.message, tr.iv)], "none")
    ELSE Settle([tr EXCEPT !.attempts = tr.attempts + 1], "failed",
                NoResult, "DecryptionError")

\* a decrypt that, when the cipher rejects, drops the keys its getKey pushed
CacheAfterDecryptRolledBack(ks, tr) ==
    IF DecryptOk(tr.aesKey, tr.message, tr.iv) THEN ks
    ELSE SubSeq(ks, 1, Min(Len(ks), tr.pos))

\* the key cache once Secret.decrypt has settled: decrypt has no catch and
\* no finally, what its getKey pushed stays
CacheAfterDecrypt(ks, tr) == ks

\* Secret.decrypt has settled
DecryptDone(i, t) ==
    /\ task[i][t].pc = "crypt"
    /\ task[i][t].op = "decrypt"
    /\ task' = [task EXCEPT ![i][t] = DecryptOutcome(task[i][t])]
    /\ keys' = [keys EXCEPT ![i] = CacheAfterDecrypt(keys[i], task[i][t])]
    /\ UNCHANGED <<counter, rootKey, issued, root0, outbox, pool, keyCall>>

(***************************************************************************)
(* Specifications of the chains                                            *)
(***************************************************************************)
\* the counters a caller asks the receiving chain for
Counters == 0..(MaxCounter - 1)

\* the cipher-texts that reach the receiver: those sent, intact or tampered
Received == {o.cipherText : o \in outbox} \cup {Tamper(o.cipherText) : o \in outbox}

\* a step of a call in flight
Resume(i, t) ==
    \/ Sign1(i, t)
    \/ Sign2(i, t)
    \/ ImportRoot(i, t)
    \/ SignRejected(i, t)
    \/ Click(i, t)
    \/ Hkdf(i, t)
    \/ ImportAESKey(i, t)
    \/ ImportHMACKey(i, t)
    \/ CipherRejected(i, t)
    \/ EncryptDone(i, t)
    \/ Push(i, t)
    \/ DecryptDone(i, t)
    \/ Return(i, t)

\* a caller starts a call
Call(i, t) ==
    \/ \E message \in Msgs : encrypt(i, t, message)
    \/ \E c \in Counters : getKey(i, t, c)
    \/ \E message \in Received, c \in Counters : decrypt(i, t, message, c)

\* calls are made one after another: a call starts when none is in flight
Next ==
    \/ \E i \in Inst : (\A j \in Inst : ~Busy(j)) /\ Call(i, 1)
    \/ \E i \in Inst : Resume(i, 1)

Spec == Init /\ [][Next]_vars

\* a caller starts a call: one message to encrypt, and the cipher-texts that
\* reach the receiver to decrypt
CallPair(i, t) ==
    \/ encrypt(i, t, CHOOSE message \in Msgs : TRUE)
    \/ \E c \in Counters : getKey(i, t, c)
    \/ \E message \in Received, c \in Counters : decrypt(i, t, message, c)

\* each instance takes its calls one after another, and the calls of the
\* two instances interleave at every await
NextPair ==
    \/ \E i \in Inst : ~Busy(i) /\ CallPair(i, 1)
    \/ \E i \in Inst : Resume(i, 1)

SpecPair == Init /\ [][NextPair]_vars

\* getKey calls on the receiving chain, one after another
NextGetKey ==
    \E i \in Receivers :
        \/ ~Busy(i) /\ \E c \in Counters : getKey(i, 1, c)
        \/ Sign1(i, 1)
        \/ Sign2(i, 1)
        \/ ImportRoot(i, 1)
        \/ SignRejected(i, 1)
        \/ Click(i, 1)
        \/ Push(i, 1)
        \/ Return(i, 1)

\* a promise the provider returned settles, and the call awaiting it goes on
Settles(i) ==
    \/ Sign1(i, 1)
    \/ Sign2(i, 1)
    \/ ImportRoot(i, 1)
    \/ SignRejected(i, 1)
    \/ Click(i, 1)
    \/ Push(i, 1)

\* the getKey calls under a provider whose promises all settle
SpecGetKey == Init /\ [][NextGetKey]_vars /\ \A i \in Receivers : WF_vars(Settles(i))

NextSending ==
    \E i \in Senders, t \in Tasks :
        \/ \E message \in Msgs : encrypt(i, t, message)
        \/ Sign1(i, t)
        \/ Sign2(i, t)
        \/ ImportRoot(i, t)
        \/ SignRejected(i, t)
        \/ Click(i, t)
        \/ Hkdf(i, t)
        \/ ImportAESKey(i, t)
        \/ ImportHMACKey(i, t)
        \/ CipherRejected(i, t)
        \/ EncryptDone(i, t)
        \/ Return(i, t)

SpecSending == Init /\ [][NextSending]_vars

\* getKey calls on the receiving chain, started while others are in flight
NextReceiving ==
    \E i \in Receivers, t \in Tasks :
        \/ \E c \in Counters : getKey(i, t, c)
        \/ Sign1(i, t)
        \/ Sign2(i, t)
        \/ ImportRoot(i, t)
        \/ SignRejected(i, t)
        \/ Click(i, t)
        \/ Push(i, t)
        \/ Return(i, t)

SpecReceiving == Init /\ [][NextReceiving]_vars

(***************************************************************************)
(* Convert and isEqual of ../utils, and the provider's EC key operations   *)
(***************************************************************************)
\* a base64url string is the sequence of its digits' values (0..63), a
\* binary string the sequence of its char codes, a hex string the sequence
\* of its digits' values (0..15)
RECURSIVE ToBase64Url(_)
\* Convert.ToBase64Url(buf): 3 bytes give 4 digits, no padding
ToBase64Url(buf) ==
    IF Len(buf) = 0 THEN <<>>
    ELSE IF Len(buf) = 1 THEN <<buf[1] \div 4, (buf[1] % 4) * 16>>
    ELSE IF Len(buf) = 2
         THEN <<buf[1] \div 4, (buf[1] % 4) * 16 + buf[2] \div 16, (buf[2] % 16) * 4>>
    ELSE <<buf[1] \div 4, (buf[1] % 4) * 16 + buf[2] \div 16,
           (buf[2] % 16) * 4 + buf[3] \div 64, buf[3] % 64>>
         \o ToBase64Url(SubSeq(buf, 4, Len(buf)))

RECURSIVE FromBase64Url(_)
\* Convert.FromBase64Url(str): 4 digits give 3 bytes
FromBase64Url(str) ==
    IF Len(str) < 2 THEN <<>>
    ELSE IF Len(str) = 2 THEN <<str[1] * 4 + str[2] \div 16>>
    ELSE IF Len(str) = 3
         THEN <<str[1] * 4 + str[2] \div 16, (str[2] % 16) * 16 + str[3] \div 4>>
    ELSE <<str[1] * 4 + str[2] \div 16, (str[2] % 16) * 16 + str[3] \div 4,
           (str[3] % 4) * 64 + str[4]>>
         \o FromBase64Url(SubSeq(str, 5, Len(str)))

\* Convert.ToBinary(buf): String.fromCharCode of every byte
ToBinary(buf) == [n \in 1..Len(buf) |-> buf[n]]

\* Convert.FromBinary(str): charCodeAt of every char, stored in a Uint8Array
FromBinary(str) == [n \in 1..Len(str) |-> str[n] % 256]

RECURSIVE ToHex(_)
\* Convert.ToHex(buf): two hex digits per byte
ToHex(buf) ==
    IF Len(buf) = 0 THEN <<>>
    ELSE <<buf[1] \div 16, buf[1] % 16>> \o ToHex(Tail(buf))

\* isEqual(bytes1, bytes2) of ../utils: same length and same bytes
BytesEqual(bytes1, bytes2) ==
    /\ Len(bytes1) = Len(bytes2)
    /\ \A n \in 1..Len(bytes1) : bytes1[n] = bytes2[n]

RECURSIVE SumBytes(_)
SumBytes(buf) == IF Len(buf) = 0 THEN 0 ELSE buf[1] + SumBytes(Tail(buf))

\* Secret.digest("SHA-1", bytes): a function of the bytes that is not
\* injective (a digest is shorter than what it digests)
Digest(bytes) == <<(SumBytes(bytes) + 7 * Len(bytes)) % 256>>

\* crypto.subtle.exportKey("jwk", key)
ExportKey(key) ==
    [kty |-> "EC", crv |-> key.namedCurve,
     x |-> ToBase64Url(key.x), y |-> ToBase64Url(key.y)]

(***************************************************************************)
(* ECPublicKey                                                             *)
(***************************************************************************)
\* the algorithm names a key handle can carry
AlgNames == {"ECDH", "ECDSA", "ecdh", "RSA-OAEP"}
KeyTypes == {"public", "private"}

\* an affine coordinate of COORD_SIZE bytes; two of them differ in one byte
Coord(v) == [n \in 1..COORD_SIZE |-> IF n = COORD_SIZE THEN (v * 37) % 256
                                                       ELSE (n + 200) % 256]
Coords == {Coord(v) : v \in 1..NCoords}

\* the provider-native key handles a caller can pass to create
Handles ==
    [name : AlgNames, type : KeyTypes, extractable : {TRUE},
     namedCurve : {"P-256"}, usages : {<<>>}, x : Coords, y : Coords]

\* String.prototype.toUpperCase on an algorithm name
ToUpperCase(name) ==
    CASE name = "ecdh" -> "ECDH"
      [] name = "ecdsa" -> "ECDSA"
      [] OTHER -> name

NoHandle ==
    [name |-> "none", type |-> "none", extractable |-> FALSE, namedCurve |-> "none",
     usages |-> <<>>, x |-> NoBytes, y |-> NoBytes]
NoIdentity == [key |-> NoHandle, serialized |-> NoBytes, id |-> NoBytes]

\* the two checks of create, made in the other order
CreateCheckTypeFirst(publicKey) ==
    IF publicKey.type # "public"
    THEN "Error: Expected key type to be public but it was not."
    ELSE IF ~(ToUpperCase(publicKey.name) = "ECDH" \/ ToUpperCase(publicKey.name) = "ECDSA")
         THEN "Error: Unsupported asymmetric key algorithm."
         ELSE "none"

\* create: the two checks made before anything else; the error thrown
CreateCheck(publicKey) ==
    IF ~(ToUpperCase(publicKey.name) = "ECDH" \/ ToUpperCase(publicKey.name) = "ECDSA")
    THEN "Error: Unsupported asymmetric key algorithm."
    ELSE IF publicKey.type # "public"
         THEN "Error: Expected key type to be public but it was not."
         ELSE "none"

\* the handles callers pass to create: every key create accepts, and the
\* keys it rejects at one point only, since create rejects them before it
\* looks at a coordinate
CallerKeys ==
    {h \in Handles : CreateCheck(h) = "none" \/ (h.x = Coord(1) /\ h.y = Coord(1))}

\* create: x and y of the JWK, decoded and concatenated
Serialized(jwk) ==
    FromBinary(ToBinary(FromBase64Url(jwk.x)) \o ToBinary(FromBase64Url(jwk.y)))

\* serialize(): the stored raw bytes
serialize(this) == this.serialized

\* a thumbprint that hashes the x coordinate only
thumbprintOfX(this) == ToHex(Digest(Slice(serialize(this), 0, COORD_SIZE)))

\* thumbprint(): hex of the SHA-1 digest of serialize()
thumbprint(this) == ToHex(Digest(serialize(this)))

\* create(publicKey) as a whole: what it throws or returns, and the
\* provider calls it makes on the way
Create(publicKey) ==
    IF CreateCheck(publicKey) # "none"
    THEN [outcome |-> "threw", err |-> CreateCheck(publicKey), res |-> NoIdentity,
          exports |-> 0, digests |-> 0]
    ELSE LET ser == Serialized(ExportKey(publicKey))
         IN  [outcome |-> "returned", err |-> "none",
              res |-> [key |-> publicKey, serialized |-> ser,
                       id |-> thumbprint([serialized |-> ser])],
              exports |-> 1, digests |-> 1]

\* the identities kept after a call that returned one
Keep(res) == IF res = NoIdentity THEN pool ELSE pool \cup {res}

\* ECPublicKey.create(publicKey)
create(publicKey) ==
    LET call == Create(publicKey)
    IN  /\ keyCall.op = "none"
        /\ Cardinality(Keep(call.res)) <= MaxPool
        /\ pool' = Keep(call.res)
        /\ keyCall' = [op |-> "create", key |-> publicKey, call |-> call]
        /\ UNCHANGED ratchetVars

\* crypto.subtle.importKey("jwk", jwk, { name, namedCurve }, true, usages)
\* accepts the coordinates of a P-256 key only: 32 bytes each
ImportJwkOk(jwk) ==
    /\ Len(FromBase64Url(jwk.x)) = 32
    /\ Len(FromBase64Url(jwk.y)) = 32

\* the key handle crypto.subtle.importKey returns
ImportJwk(jwk, name, usages) ==
    [name |-> name, type |-> "public", extractable |-> TRUE, namedCurve |-> jwk.crv,
     usages |-> usages, x |-> FromBase64Url(jwk.x), y |-> FromBase64Url(jwk.y)]

\* the raw buffers a caller can pass to importKey: x then y, and one buffer
\* with its last byte missing
RawKeys ==
    {x \o y : x \in Coords, y \in Coords}
        \cup {SubSeq(Coord(1) \o Coord(1), 1, 2 * COORD_SIZE - 1)}

\* the key kinds of importKey (ECKeyType)
KeyKinds == {"ECDSA", "ECDH"}

\* an importKey that takes y from the first half of the buffer as well
ImportCoordYFirstHalf(bytes) == Slice(bytes, 0, COORD_SIZE)

\* importKey: bytes.slice(0, 32)
ImportCoordX(bytes) == Slice(bytes, 0, COORD_SIZE)

\* importKey: bytes.slice(32)
ImportCoordY(bytes) == Slice(bytes, COORD_SIZE, Len(bytes))

\* importKey: the JWK built from the two halves of the buffer
ImportedJwk(bytes) ==
    [kty |-> "EC", crv |-> "P-256",
     x |-> ToBase64Url(ImportCoordX(bytes)), y |-> ToBase64Url(ImportCoordY(bytes))]

\* importKey: type === "ECDSA" ? ["verify"] : ["deriveBits"]
ImportUsage(type) == IF type = "ECDSA" THEN <<"verify">> ELSE <<"deriveBits">>

\* importKey(bytes, type) as a whole: the provider rejects the JWK, or the
\* imported handle goes to create
ImportKey(bytes, type) ==
    IF ~ImportJwkOk(ImportedJwk(bytes))
    THEN [outcome |-> "threw", err |-> "DataError", res |-> NoIdentity,
          exports |-> 0, digests |-> 0]
    ELSE Create(ImportJwk(ImportedJwk(bytes), type, ImportUsage(type)))

\* ECPublicKey.importKey(bytes, type)
importKey(bytes, type) ==
    LET call == ImportKey(bytes, type)
    IN  /\ keyCall.op = "none"
        /\ Cardinality(Keep(call.res)) <= MaxPool
        /\ pool' = Keep(call.res)
        /\ keyCall' = [op |-> "importKey", bytes |-> bytes, type |-> type, call |-> call]
        /\ UNCHANGED ratchetVars

\* this.thumbprint()
thumbprintCall(this) ==
    /\ keyCall.op = "none"
    /\ keyCall' = [op |-> "thumbprint", this |-> this, ret |-> thumbprint(this)]
    /\ UNCHANGED pool
    /\ UNCHANGED ratchetVars

\* the values a caller can pass to isEqual for an identity `this`
Others(this) ==
    {[kind |-> "ECPublicKey", v |-> o] : o \in pool}
        \cup {[kind |-> "null", v |-> NoIdentity], [kind |-> "undefined", v |-> NoIdentity],
              [kind |-> "Object", v |-> this]}

\* other && other instanceof ECPublicKey
IsECPublicKey(other) ==
    /\ other.kind \notin {"null", "undefined"}
    /\ other.kind = "ECPublicKey"

\* an isEqual that compares the identifiers instead of the serializations
IsEqualById(this, other) ==
    IF ~IsECPublicKey(other) THEN FALSE
    ELSE BytesEqual(this.id, other.v.id)

\* isEqual(other): the instance test, then the bytes of the two serializations
IsEqual(this, other) ==
    IF ~IsECPublicKey(other) THEN FALSE
    ELSE BytesEqual(this.serialized, other.v.serialized)

\* this.isEqual(other)
isEqual(this, other) ==
    /\ keyCall.op = "none"
    /\ keyCall' = [op |-> "isEqual", this |-> this, other |-> other,
                   ret |-> IsEqual(this, other)]
    /\ UNCHANGED pool
    /\ UNCHANGED ratchetVars

\* the caller has taken the outcome of the last call
ReturnKeyCall ==
    /\ keyCall.op # "none"
    /\ keyCall' = [op |-> "none"]
    /\ UNCHANGED pool
    /\ UNCHANGED ratchetVars

NextKey ==
    \/ \E publicKey \in CallerKeys : create(publicKey)
    \/ \E this \in pool : \E other \in Others(this) : isEqual(this, other)
    \/ \E bytes \in RawKeys, type \in KeyKinds : importKey(bytes, type)
    \/ \E this \in pool : thumbprintCall(this)
    \/ ReturnKeyCall

\* no identity exists yet; the chains are constructed and left alone
InitKey ==
    /\ Init
    /\ \A i \in Inst : rootKey[i] = ImportHMAC(<<101>>)

SpecKey == InitKey /\ [][NextKey]_vars

(***************************************************************************)
(* The chain a root key defines, stated independently of the calls         *)
(***************************************************************************)
RECURSIVE ChainRoot(_, _)
\* the root key after n advances from root key r
ChainRoot(r, n) ==
    IF n = 0 THEN r ELSE ImportHMAC(Sign(ChainRoot(r, n - 1), ROOT_KEY_KDF_INPUT))

\* the cipher key of chain step k (the first step is step 0)
ChainKey(r, k) == Sign(ChainRoot(r, k), CIPHER_KEY_KDF_INPUT)

\* no value occurs twice in a sequence
NoDuplicates(seq) == \A a, b \in DOMAIN seq : a # b => seq[a] # seq[b]

(***************************************************************************)
(* Properties                                                              *)
(***************************************************************************)
\* C1 - Sender/receiver agreement: when sender and receiver were constructed
\* with the same root key, a decrypt(cipherText, k) of the cipher-text that
\* the sender's encrypt(m) returned at chain position k never fails to
\* decrypt and returns m, whatever the receiver has decrypted before (the
\* call can otherwise only end because the provider rejected a derivation).
SenderReceiverAgreement ==
    \A s \in Senders, i \in Receivers : \A o \in outbox :
        LET tr == task[i][1]
        IN  (/\ root0[s] = root0[i]
             /\ tr.op = "decrypt"
             /\ tr.pc \in {"done", "failed"}
             /\ tr.message = o.cipherText
             /\ tr.counter = o.counter)
            => \/ tr.pc = "done" /\ tr.result.cipherText = o.message
               \/ tr.pc = "failed" /\ tr.err = "ProviderError"

\* a message sent at position 0 is decrypted after the receiver has already
\* advanced past position 1
AgreementReached ==
    \E s \in Senders, i \in Receivers : \E o \in outbox :
        /\ root0[s] = root0[i]
        /\ task[i][1].op = "decrypt"
        /\ task[i][1].pc = "done"
        /\ task[i][1].message = o.cipherText
        /\ task[i][1].counter = o.counter
        /\ o.counter = 0
        /\ task[i][1].pos >= 2
        /\ task[i][1].result.cipherText = o.message

\* a getKey call has returned its key to its caller
KeyReturned(tr) ==
    \/ tr.op = "getKey" /\ tr.pc = "done"
    \/ tr.op = "decrypt" /\ tr.pc \in InCipher

\* C2 - Out-of-order tolerance: with calls made one after another, the key
\* getKey(c) returns (and decrypt(_, c) uses) is the cipher key of chain
\* step c of the instance's initial root key, and so is every cache entry:
\* neither depends on the order in which the counters were requested.
OutOfOrderTolerance ==
    \A i \in Receivers :
        /\ KeyReturned(task[i][1])
              => task[i][1].key = ChainKey(root0[i], task[i][1].counter)
        /\ \A n \in DOMAIN keys[i] : keys[i][n] = ChainKey(root0[i], n - 1)

\* getKey(0) returns after the chain has been advanced to position 2 or more
OutOfOrderReached ==
    \E i \in Receivers :
        /\ task[i][1].op = "getKey"
        /\ task[i][1].pc = "done"
        /\ task[i][1].counter = 0
        /\ task[i][1].pos >= 2
        /\ task[i][1].key = keys[i][1]

\* C3 - Determinism: two engines constructed with the same root key produce
\* the same cipher-key sequence, click by click, and when both have been
\* advanced N times they hold the same rootKey and counter.
Determinism ==
    \A a, b \in Inst :
        root0[a] = root0[b] =>
            /\ \A n \in DOMAIN issued[a] \cap DOMAIN issued[b] :
                  issued[a][n] = issued[b][n]
            /\ Len(issued[a]) = Len(issued[b])
                  => rootKey[a] = rootKey[b] /\ counter[a] = counter[b]

\* both engines were given the same root key and have been advanced twice
DeterminismReached ==
    \E a \in Senders, b \in Receivers :
        /\ root0[a] = root0[b]
        /\ Len(issued[a]) >= 2
        /\ Len(issued[b]) = Len(issued[a])

\* C4 - Forward-only: the counter starts at 0 and counts the advances (one
\* per click that has returned); a step changes it only by adding 1, and
\* only when a click commits; no cipher key is derived twice by one instance.
ForwardOnly ==
    /\ [](\A i \in Inst : /\ counter[i] = Len(issued[i])
                          /\ NoDuplicates(issued[i]))
    /\ [][\A i \in Inst :
             \/ counter'[i] = counter[i] /\ issued'[i] = issued[i]
             \/ /\ counter'[i] = counter[i] + 1
                /\ task[i][1].pc = "click"
                /\ issued'[i] = Append(issued[i], ChainKey(root0[i], counter[i]))]_vars

\* a chain has advanced three times, through getKey and decrypt calls
ForwardOnlyReached ==
    \E i \in Receivers :
        /\ counter[i] = 3
        /\ task[i][1].op = "decrypt"
        /\ task[i][1].pc = "done"

\* C5 - Concurrent encrypt calls on one sending chain do not interleave
\* state mutation: no cipher key is issued twice, and once all calls have
\* completed the root key is the one reached by as many advances as the
\* counter counts.
EncryptCallsSerialized ==
    \A i \in Senders :
        /\ NoDuplicates(issued[i])
        /\ counter[i] = Len(issued[i])
        /\ ~Busy(i) => rootKey[i] = ChainRoot(root0[i], counter[i])

\* C6 - Concurrent getKey calls on one receiving chain do not corrupt the
\* cache: every cache entry keys[i] is the cipher key of chain step i, and
\* every getKey(c) that returns yields the cipher key of chain step c.
GetKeyCallsSerialized ==
    \A i \in Receivers :
        /\ \A n \in DOMAIN keys[i] : keys[i][n] = ChainKey(root0[i], n - 1)
        /\ \A t \in Tasks :
              (task[i][t].op = "getKey" /\ task[i][t].pc = "done")
                  => task[i][t].key = ChainKey(root0[i], task[i][t].counter)

\* C7 - click commits all-or-nothing: in every state the root key is the
\* one reached by exactly counter advances; a step either leaves rootKey and
\* counter both alone or is a click commit that installs the derived root
\* key and adds 1 to the counter together; a step in which a call fails
\* leaves both alone.
ClickAllOrNothing ==
    /\ [](\A i \in Inst : rootKey[i] = ChainRoot(root0[i], counter[i]))
    /\ [][\A i \in Inst :
             /\ \/ rootKey'[i] = rootKey[i] /\ counter'[i] = counter[i]
                \/ /\ task[i][1].pc = "click"
                   /\ rootKey'[i] = task[i][1].res.rootKey
                   /\ rootKey'[i] # rootKey[i]
                   /\ counter'[i] = counter[i] + 1
             /\ (task'[i][1].pc = "failed" /\ task[i][1].pc # "failed")
                   => rootKey'[i] = rootKey[i] /\ counter'[i] = counter[i]]_vars

\* a getKey call has failed in a provider call of its second or later advance
ClickFailureReached ==
    \E i \in Receivers :
        /\ task[i][1].op = "getKey"
        /\ task[i][1].pc = "failed"
        /\ task[i][1].err = "ProviderError"
        /\ task[i][1].clicks >= 1
        /\ counter[i] = task[i][1].pos + task[i][1].clicks

\* the provider accepts the cipher-text under the AES key and the IV that
\* belong to chain step c of root key r
Accepted(r, c, ct) ==
    LET mk == HKDF(ChainKey(r, c), 3, INFO_MESSAGE_KEYS)
    IN  DecryptOk(ImportAES(mk[1]), ct, Slice(mk[3], 0, IV_LENGTH))

\* C8 - Tamper rejection: a decrypt call asks the provider to decrypt at
\* most once; when the provider rejects the cipher-text for the key and IV
\* of the requested counter, the call fails with the DecryptionError and
\* returns no CipherMessage; a call that returns one returns the plain-text
\* of an accepted, untampered cipher-text.
TamperRejection ==
    \A i \in Receivers :
        LET tr == task[i][1]
        IN  tr.op = "decrypt" =>
              /\ tr.attempts <= 1
              /\ (tr.attempts = 1 /\ ~Accepted(root0[i], tr.counter, tr.message))
                    => /\ tr.pc = "failed"
                       /\ tr.err = "DecryptionError"
                       /\ tr.result = NoResult
              /\ tr.pc = "done"
                    => /\ Accepted(root0[i], tr.counter, tr.message)
                       /\ tr.message.flip = 0
                       /\ tr.result.cipherText = tr.message.data

\* a tampered cipher-text of the right chain position has been rejected
TamperRejected ==
    \E s \in Senders, i \in Receivers : \E o \in outbox :
        /\ root0[s] = root0[i]
        /\ task[i][1].op = "decrypt"
        /\ task[i][1].message = Tamper(o.cipherText)
        /\ task[i][1].counter = o.counter
        /\ task[i][1].pc = "failed"
        /\ task[i][1].err = "DecryptionError"
        /\ task[i][1].attempts = 1

\* the names of the key-agreement and the signature algorithm, in any case
ECNames == {"ECDH", "ECDSA", "ecdh"}

\* create threw the error e, returned nothing and called no provider
Rejected(call, e) ==
    /\ call.outcome = "threw"
    /\ call.err = e
    /\ call.res = NoIdentity
    /\ call.exports = 0
    /\ call.digests = 0

\* C9 - Rejected inputs: create on a handle whose algorithm is neither ECDH
\* nor ECDSA throws the unsupported-algorithm error; on an ECDH or ECDSA
\* handle that is not a public key it throws the key-type error; either way
\* it returns no identity, makes no export or digest call, and the step
\* changes no identity that exists.
RejectedInputs ==
    /\ [](keyCall.op = "create" =>
            /\ keyCall.key.name \notin ECNames
                  => Rejected(keyCall.call, "Error: Unsupported asymmetric key algorithm.")
            /\ (keyCall.key.name \in ECNames /\ keyCall.key.type # "public")
                  => Rejected(keyCall.call,
                              "Error: Expected key type to be public but it was not."))
    /\ [][(keyCall'.op = "create" /\ keyCall'.call.outcome = "threw")
             => pool' = pool /\ UNCHANGED ratchetVars]_vars

\* create has rejected a private ECDSA key while identities exist
PrivateKeyRejected ==
    /\ keyCall.op = "create"
    /\ keyCall.key.name = "ECDSA"
    /\ keyCall.key.type = "private"
    /\ keyCall.call.outcome = "threw"
    /\ pool # {}

\* C10 - isEqual(other) returns true exactly when other is an ECPublicKey
\* whose serialization has the same bytes as this one's: false for null,
\* undefined and values that are no ECPublicKey, whatever the key handles
\* and the identifiers of the two are.
PublicKeyEquality ==
    keyCall.op = "isEqual" =>
        keyCall.ret = (/\ keyCall.other.kind = "ECPublicKey"
                       /\ keyCall.other.v.serialized = keyCall.this.serialized)

\* two identities with different key handles have been found equal
EqualAcrossHandles ==
    /\ keyCall.op = "isEqual"
    /\ keyCall.ret = TRUE
    /\ keyCall.other.kind = "ECPublicKey"
    /\ keyCall.other.v.key # keyCall.this.key

\* the two buffers have the same length and differ in exactly one byte
DiffersInOneByte(a, b) ==
    /\ Len(a) = Len(b)
    /\ Cardinality({n \in 1..Len(a) : a[n] # b[n]}) = 1

\* the coordinate buffer of a key handle: x then y
CoordBuffer(key) == key.x \o key.y

\* C11 - importKey(k.serialize(), kind) returns, for every identity k and
\* both key kinds, an identity that isEqual to k: its serialization is x
\* then y, COORD_SIZE bytes each, the bytes of k's. Two identities whose
\* coordinate buffers differ in a single byte are never isEqual.
PublicKeyRoundTrip ==
    /\ keyCall.op = "importKey" =>
           \A k \in pool :
               keyCall.bytes = serialize(k) =>
                   /\ keyCall.call.outcome = "returned"
                   /\ IsEqual(keyCall.call.res, [kind |-> "ECPublicKey", v |-> k])
                   /\ IsEqual(k, [kind |-> "ECPublicKey", v |-> keyCall.call.res])
                   /\ keyCall.call.res.serialized = CoordBuffer(k.key)
                   /\ keyCall.call.res.serialized = CoordBuffer(keyCall.call.res.key)
                   /\ Len(keyCall.call.res.key.x) = COORD_SIZE
                   /\ Len(keyCall.call.res.key.y) = COORD_SIZE
    /\ (/\ keyCall.op = "isEqual"
        /\ keyCall.other.kind = "ECPublicKey"
        /\ DiffersInOneByte(CoordBuffer(keyCall.this.key),
                            CoordBuffer(keyCall.other.v.key)))
           => keyCall.ret = FALSE

\* the serialization of an identity made by create, with x # y, has been
\* imported as a key of another kind
RoundTripReached ==
    /\ keyCall.op = "importKey"
    /\ keyCall.call.outcome = "returned"
    /\ \E k \in pool :
           /\ keyCall.bytes = serialize(k)
           /\ k.key.usages = <<>>
           /\ k.key.x # k.key.y
           /\ ToUpperCase(k.key.name) # keyCall.type

\* isEqual has compared two identities whose coordinate buffers are one
\* byte apart
OneByteApartCompared ==
    /\ keyCall.op = "isEqual"
    /\ keyCall.other.kind = "ECPublicKey"
    /\ DiffersInOneByte(CoordBuffer(keyCall.this.key), CoordBuffer(keyCall.other.v.key))

\* C12 - every identity create or importKey returned has as id the hex
\* form of the digest of its serialized bytes, thumbprint() returns that
\* id on every call, and identities with the same serialized bytes have
\* the same id whatever their key handles are.
ThumbprintStability ==
    /\ \A k \in pool : k.id = ToHex(Digest(k.serialized))
    /\ keyCall.op \in {"create", "importKey"} =>
           (keyCall.call.outcome = "returned" =>
                keyCall.call.res.id = ToHex(Digest(keyCall.call.res.serialized)))
    /\ keyCall.op = "thumbprint" => keyCall.ret = keyCall.this.id
    /\ \A a \in pool, b \in pool : a.serialized = b.serialized => a.id = b.id

\* thumbprint() has been called on an identity that shares its serialized
\* bytes with an identity of another key handle
ThumbprintAcrossHandles ==
    /\ keyCall.op = "thumbprint"
    /\ \E b \in pool :
           /\ b.key # keyCall.this.key
           /\ b.key.usages # keyCall.this.key.usages
           /\ b.serialized = keyCall.this.serialized

\* the key cache of an instance; a sending chain has none
Cache(i) == IF i \in Receivers THEN keys[i] ELSE <<>>

\* the step is one of instance i
StepOf(i) == task'[i] # task[i]

\* every instance is where its own root key and its own number of advances
\* put it, and what its settled call returned is what it returns alone
StandsAlone(i) ==
    /\ rootKey[i] = ChainRoot(root0[i], counter[i])
    /\ Len(issued[i]) = counter[i]
    /\ \A n \in 1..Len(issued[i]) : issued[i][n] = ChainKey(root0[i], n - 1)
    /\ Len(Cache(i)) <= counter[i]
    /\ \A n \in 1..Len(Cache(i)) : Cache(i)[n] = ChainKey(root0[i], n - 1)
    /\ \A t \in Tasks :
           task[i][t].pc = "done" =>
               /\ task[i][t].op = "encrypt" =>
                      task[i][t].cipherKey = ChainKey(root0[i], task[i][t].pos)
               /\ task[i][t].op \in {"getKey", "decrypt"} =>
                      task[i][t].key = ChainKey(root0[i], task[i][t].counter)

\* C13 - a step of one instance leaves the root key, the counter, the key
\* cache and the calls in flight of every other instance unchanged, and in
\* every interleaving of the calls of two instances each instance's state
\* and results are those of its own calls run alone.
InstancesIndependent ==
    /\ [](\A i \in Inst : StandsAlone(i))
    /\ [][\A i \in Inst : StepOf(i) =>
              \A j \in Inst \ {i} :
                  /\ rootKey'[j] = rootKey[j]
                  /\ counter'[j] = counter[j]
                  /\ Cache(j)' = Cache(j)
                  /\ issued'[j] = issued[j]
                  /\ task'[j] = task[j]]_vars

\* both instances have advanced and are both in the middle of a click
IndependenceReached ==
    /\ \A i \in Inst : counter[i] > 0 /\ task[i][1].pc = "click"
    /\ counter["snd"] # counter["rcv"]

\* the AES key a message key pipeline makes of a cipher key
MessageKey(cipherKey) == ImportAES(HKDF(cipherKey, 3, INFO_MESSAGE_KEYS)[1])

\* C14 - a successful encrypt has advanced the chain exactly once: the
\* counter is one more than when it was called, the root key is the next of
\* the chain, the message is encrypted under the cipher key of that one
\* step, and no two encrypt calls have used the same cipher key.
EncryptAdvancesOnce ==
    /\ \A i \in Senders, t \in Tasks :
           (task[i][t].op = "encrypt" /\ task[i][t].pc = "done") =>
               /\ task[i][t].clicks = 1
               /\ counter[i] = task[i][t].pos + 1
               /\ rootKey[i] = ChainRoot(root0[i], task[i][t].pos + 1)
               /\ rootKey[i] # ChainRoot(root0[i], task[i][t].pos)
               /\ task[i][t].cipherKey = issued[i][task[i][t].pos + 1]
               /\ task[i][t].result.cipherText.key = MessageKey(task[i][t].cipherKey).raw
    /\ \A i \in Senders : NoDuplicates(issued[i])
    /\ \A o1 \in outbox, o2 \in outbox :
           o1.counter # o2.counter => o1.cipherText.key # o2.cipherText.key

\* an encrypt has succeeded after another one
SecondEncryptDone ==
    \E i \in Senders :
        /\ task[i][1].op = "encrypt"
        /\ task[i][1].pc = "done"
        /\ task[i][1].pos >= 1
        /\ \E o \in outbox : o.counter = 0

\* a getKey call that asks for a position not derived yet
Ahead(tr) == tr.op = "getKey" /\ tr.counter >= tr.pos

\* C15 - getKey(c) on a receiver at position n <= c is never rejected for
\* its distance: every such call settles, after exactly c + 1 - n advances
\* when it succeeds; it has then appended the keys of exactly those steps in
\* step order, the requested one last, left the counter at c + 1 and
\* returned the cache entry at index c.
GetKeyLookahead ==
    /\ [](\A i \in Receivers :
              Ahead(task[i][1]) =>
                  /\ task[i][1].err \in {"none", "ProviderError"}
                  /\ task[i][1].clicks <= task[i][1].counter + 1 - task[i][1].pos
                  /\ task[i][1].pc = "done" =>
                         /\ task[i][1].clicks = task[i][1].counter + 1 - task[i][1].pos
                         /\ counter[i] = task[i][1].counter + 1
                         /\ Len(keys[i]) = task[i][1].counter + 1
                         /\ \A n \in (task[i][1].pos + 1)..(task[i][1].counter + 1) :
                                keys[i][n] = issued[i][n]
                         /\ task[i][1].key = keys[i][task[i][1].counter + 1]
                         /\ task[i][1].key = issued[i][Len(issued[i])])
    /\ \A i \in Receivers :
           (Ahead(task[i][1]) /\ task[i][1].pc \notin Settled)
               ~> (Ahead(task[i][1]) /\ task[i][1].pc \in Settled)

\* a getKey that skipped at least one position has returned
LookaheadReached ==
    \E i \in Receivers :
        /\ Ahead(task[i][1])
        /\ task[i][1].pc = "done"
        /\ task[i][1].pos >= 1
        /\ task[i][1].counter >= task[i][1].pos + 1

\* C16 - every step leaves the key cache as it is or appends one key at the
\* next index: no entry is ever removed, overwritten or moved.
CacheAppendOnly ==
    [][\A i \in Receivers :
           \/ keys'[i] = keys[i]
           \/ /\ Len(keys'[i]) = Len(keys[i]) + 1
              /\ SubSeq(keys'[i], 1, Len(keys[i])) = keys[i]]_vars

\* the cache holds at least two keys and a decrypt has just failed
CacheGrown ==
    \E i \in Receivers :
        /\ Len(keys[i]) >= 2
        /\ task[i][1].op = "decrypt"
        /\ task[i][1].pc = "failed"

\* C17 - a click takes both its outputs from the root key it found: the
\* cipher key is the signature of the tag 1 and the new root key the HMAC
\* key made of the signature of the tag 2, both under the old root key. So
\* after j clicks the root key is the j-fold derivation of the first one,
\* and the j-th cipher key is derived from the (j-1)-fold root key.
ClickDerivesFromOldRoot ==
    /\ [][\A i \in Inst :
              counter'[i] # counter[i] =>
                  /\ issued'[i] = Append(issued[i], Sign(rootKey[i], <<1>>))
                  /\ rootKey'[i] = ImportHMAC(Sign(rootKey[i], <<2>>))
                  /\ task'[i][1].cipherKey = Sign(rootKey[i], <<1>>)
                  /\ task'[i][1].cipherKey # Sign(rootKey'[i], <<1>>)]_vars
    /\ [](\A i \in Inst :
              /\ rootKey[i] = ChainRoot(root0[i], counter[i])
              /\ \A j \in 1..Len(issued[i]) :
                     issued[i][j] = Sign(ChainRoot(root0[i], j - 1), <<1>>))

\* a chain has made its second click
SecondClickDone ==
    \E i \in Inst :
        /\ counter[i] = 2
        /\ Len(issued[i]) = 2
        /\ task[i][1].clicks >= 1

\* a getKey call that asks for a position derived before the call
Behind(tr) == tr.op = "getKey" /\ tr.counter < tr.pos

\* no call of the instance is between its start and its outcome
AtRest(i) == \A t \in Tasks : task[i][t].pc \in {"idle"} \cup Settled

\* C18 - getKey(c) on a receiver whose counter is above c makes no advance
\* and no provider call: it returns the cache entry at index c at once, the
\* same key every time, and leaves root key, counter and cache as they
\* were. Between calls the cache has as many entries as the counter says.
DerivedPositionsUnchanged ==
    /\ [](\A i \in Receivers :
              /\ Behind(task[i][1]) =>
                     /\ task[i][1].pc = "done"
                     /\ task[i][1].clicks = 0
                     /\ counter[i] = task[i][1].pos
                     /\ task[i][1].key = keys[i][task[i][1].counter + 1]
                     /\ task[i][1].key = ChainKey(root0[i], task[i][1].counter)
              /\ AtRest(i) => Len(keys[i]) = counter[i])
    /\ [][\A i \in Receivers :
              (task[i][1].pc = "idle" /\ Behind(task'[i][1])) =>
                  /\ rootKey' = rootKey
                  /\ counter' = counter
                  /\ keys' = keys
                  /\ issued' = issued]_vars

\* the key of the first position has been asked for again after two advances
DerivedKeyReturned ==
    \E i \in Receivers :
        /\ Behind(task[i][1])
        /\ task[i][1].counter = 0
        /\ task[i][1].pos >= 2
        /\ task[i][1].pc = "done"

\* a decrypt call the cipher has rejected
Refused(tr) == tr.op = "decrypt" /\ tr.pc = "failed" /\ tr.err = "DecryptionError"

\* C19 - a decrypt the cipher rejects keeps the advances and the keys its
\* getKey made: the counter is the larger of its old value and c + 1, the
\* cache holds the keys of all the steps up to it, and the authentic
\* message of position c is still accepted under the cached key of c; the
\* failing step itself changes no counter, root key or cache.
FailedDecryptKeepsAdvances ==
    /\ [](\A i \in Receivers :
              Refused(task[i][1]) =>
                  /\ counter[i] = IF task[i][1].pos > task[i][1].counter
                                  THEN task[i][1].pos ELSE task[i][1].counter + 1
                  /\ Len(keys[i]) = counter[i]
                  /\ rootKey[i] = ChainRoot(root0[i], counter[i])
                  /\ \A n \in 1..Len(keys[i]) : keys[i][n] = ChainKey(root0[i], n - 1)
                  /\ \A s \in Senders : \A o \in outbox :
                         (root0[s] = root0[i] /\ o.counter = task[i][1].counter) =>
                             LET k == keys[i][task[i][1].counter + 1]
                             IN  DecryptOk(MessageKey(k), o.cipherText,
                                           MessageIV(HKDF(k, 3, INFO_MESSAGE_KEYS))))
    /\ [][\A i \in Receivers :
              (Refused(task'[i][1]) /\ ~Refused(task[i][1])) =>
                  /\ counter' = counter
                  /\ rootKey' = rootKey
                  /\ keys' = keys]_vars

\* a tampered message two positions ahead has been refused after its
\* getKey advanced the chain
RefusedAfterAdvance ==
    \E s \in Senders, i \in Receivers : \E o \in outbox :
        /\ root0[s] = root0[i]
        /\ Refused(task[i][1])
        /\ task[i][1].message = Tamper(o.cipherText)
        /\ task[i][1].counter = o.counter
        /\ task[i][1].clicks >= 2

====
